---------------------------- MODULE Spec2Model ----------------------------
(***************************************************************************)
(* A model of app.py, the paystub analyzer: text acquisition with its OCR  *)
(* fallback, the label-anchored field locator find_best_pattern, the value *)
(* normalizer and the summary arithmetic.                                  *)
(*                                                                         *)
(* Strings are sequences of one-character strings.  Python positions are   *)
(* 0-based with exclusive ends; the model uses 1-based positions with      *)
(* inclusive ends, so m.start() is `start - 1` and m.end() is `last`.      *)
(***************************************************************************)
EXTENDS Integers, Sequences, FiniteSets, TLC

VARIABLES
    \* ---- find_best_pattern and the extraction loop (app.py 68-101)
    pc,          \* position of the extraction run
    key,         \* the semantic field being extracted
    text,        \* raw_text
    pi,          \* index of `pat` in label_patterns
    pos,         \* where re.finditer resumes its search
    m,           \* the regex match the loop body is working on
    best,        \* the running best {"match", "score", "value"}
    scanned,     \* history: every regex match so far and what the body made of it
    extracted,   \* extracted[key] once the loop body has run
    \* ---- extract_text_from_pdf_bytes and the run of the script (app.py 22-45)
    apc,         \* position of the acquisition run
    npages,      \* number of pages of the uploaded document
    page,        \* index of the next page of the primary pass
    atext,       \* the local `text`
    imgs,        \* number of images convert_from_bytes returned
    img,         \* index of the next image of the OCR pass
    ocr_text,    \* the local `ocr_text`
    warnings,    \* number of st.warning calls made
    thrown,      \* history: where the primary pass threw and `text` at that time
    gate,        \* history: `text` as the quality gate saw it, and its verdict
    raw_text,    \* what extract_text_from_pdf_bytes returned
    \* ---- the value normalizer on any token (app.py 95-101)
    npc,         \* position of the normalizer run
    raw,         \* res["value"]
    nvalue,      \* extracted[key]
    \* ---- the editable fields and the summary (app.py 104-128)
    spc,         \* position of the presentation run
    seeds,       \* the extracted values the number inputs are seeded with
    fields,      \* the current values of the number inputs
    total_taxes,
    estimated_take_home

extractVars == << pc, key, text, pi, pos, m, best, scanned, extracted >>
acqVars == << apc, npages, page, atext, imgs, img, ocr_text, warnings, thrown,
              gate, raw_text >>
normVars == << npc, raw, nvalue >>
sumVars == << spc, seeds, fields, total_taxes, estimated_take_home >>

vars == << extractVars, acqVars, normVars, sumVars >>

-----------------------------------------------------------------------------
(* Characters *)

NL == "\n"
\* U+017F LATIN SMALL LETTER LONG S and U+0131 LATIN SMALL LETTER DOTLESS I:
\* re.IGNORECASE treats them as case variants of "s" and "i", str.lower()
\* leaves them as they are.
LongS == "long_s"
DotlessI == "dotless_i"

lowerMap ==
    ("A" :> "a") @@ ("B" :> "b") @@ ("C" :> "c") @@ ("D" :> "d") @@ ("E" :> "e") @@
    ("F" :> "f") @@ ("G" :> "g") @@ ("H" :> "h") @@ ("I" :> "i") @@ ("J" :> "j") @@
    ("K" :> "k") @@ ("L" :> "l") @@ ("M" :> "m") @@ ("N" :> "n") @@ ("O" :> "o") @@
    ("P" :> "p") @@ ("Q" :> "q") @@ ("R" :> "r") @@ ("S" :> "s") @@ ("T" :> "t") @@
    ("U" :> "u") @@ ("V" :> "v") @@ ("W" :> "w") @@ ("X" :> "x") @@ ("Y" :> "y") @@
    ("Z" :> "z")

\* str.lower() on one character
LowerChar(c) == IF c \in DOMAIN lowerMap THEN lowerMap[c] ELSE c

\* str.lower()
lower(s) == [i \in 1..Len(s) |-> LowerChar(s[i])]

upperMap == [c \in {lowerMap[u] : u \in DOMAIN lowerMap} |->
                CHOOSE u \in DOMAIN lowerMap : lowerMap[u] = c]

\* str.upper(), used to build upper-case text
upper(s) == [i \in 1..Len(s) |-> IF s[i] \in DOMAIN upperMap THEN upperMap[s[i]] ELSE s[i]]

\* the case folding re.IGNORECASE compares characters under
FoldChar(c) == IF c = LongS THEN "s" ELSE IF c = DotlessI THEN "i" ELSE LowerChar(c)

IsDigit(c) == c \in {"0","1","2","3","4","5","6","7","8","9"}

\* \s and str.strip() whitespace
IsSpace(c) == c \in {" ", NL, "\t", "\r"}

Min(a, b) == IF a < b THEN a ELSE b
Max(a, b) == IF a > b THEN a ELSE b
SetMin(S) == CHOOSE x \in S : \A y \in S : x <= y
SetMax(S) == CHOOSE x \in S : \A y \in S : x >= y

\* Python's None; also what `if res["value"]` finds falsy
None == << >>

-----------------------------------------------------------------------------
(* The label dictionary *)

patterns ==
  [ gross |-> <<
        <<"G","r","o","s","s"," ","P","a","y">>,
        <<"G","r","o","s","s"," ","E","a","r","n","i","n","g","s">>,
        <<"T","o","t","a","l"," ","G","r","o","s","s">>,
        <<"G","r","o","s","s">>
      >>,
    net |-> <<
        <<"N","e","t"," ","P","a","y">>,
        <<"N","e","t"," ","A","m","o","u","n","t">>,
        <<"N","e","t"," ","P","a","y"," ","t","o"," ","E","m","p","l","o","y","e","e">>,
        <<"P","a","y"," ","A","f","t","e","r"," ","D","e","d","u","c","t","i","o","n","s">>
      >>,
    federal |-> <<
        <<"F","e","d","e","r","a","l"," ","W","i","t","h","h","o","l","d","i","n","g">>,
        <<"F","e","d","e","r","a","l"," ","T","a","x">>,
        <<"F","e","d"," ","W","i","t","h","h","e","l","d">>,
        <<"F","e","d","e","r","a","l"," ","I","n","c","o","m","e"," ","T","a","x">>
      >>,
    state |-> <<
        <<"S","t","a","t","e"," ","W","i","t","h","h","o","l","d","i","n","g">>,
        <<"S","t","a","t","e"," ","T","a","x">>,
        <<"S","t","a","t","e"," ","I","n","c","o","m","e"," ","T","a","x">>
      >>,
    ss |-> <<
        <<"S","o","c","i","a","l"," ","S","e","c","u","r","i","t","y">>,
        <<"F","I","C","A"," ","S","o","c","i","a","l"," ","S","e","c","u","r","i","t","y">>,
        <<"S","o","c","i","a","l"," ","S","e","c">>
      >>,
    medicare |-> <<
        <<"M","e","d","i","c","a","r","e">>,
        <<"F","I","C","A"," ","M","e","d","i","c","a","r","e">>
      >>,
    regular_hours |-> <<
        <<"R","e","g","u","l","a","r"," ","H","o","u","r","s">>,
        <<"H","o","u","r","s"," ","R","e","g","u","l","a","r">>,
        <<"R","e","g"," ","H","r","s">>
      >>,
    overtime_hours |-> <<
        <<"O","v","e","r","t","i","m","e"," ","H","o","u","r","s">>,
        <<"O","T"," ","H","o","u","r","s">>,
        <<"O","v","e","r","t","i","m","e"," ","H","r","s">>
      >>,
    regular_amount |-> <<
        <<"R","e","g","u","l","a","r"," ","P","a","y">>,
        <<"R","e","g","u","l","a","r"," ","E","a","r","n","i","n","g","s">>
      >>,
    overtime_amount |-> <<
        <<"O","v","e","r","t","i","m","e"," ","P","a","y">>,
        <<"O","T"," ","P","a","y">>,
        <<"O","v","e","r","t","i","m","e"," ","E","a","r","n","i","n","g","s">>
      >> ]

-----------------------------------------------------------------------------
(* money_re = \$?\s?([0-9]{1,3}(?:,[0-9]{3})*(?:\.[0-9]{1,2})?) *)

\* number of digits of s from position i on, at most n
RECURSIVE DigitsAt(_, _, _)
DigitsAt(s, i, n) ==
    IF n = 0 \/ i > Len(s) \/ ~IsDigit(s[i]) THEN 0 ELSE 1 + DigitsAt(s, i + 1, n - 1)

\* (?:,[0-9]{3})* from position i, greedy: the position after the last group
RECURSIVE GroupsEnd(_, _)
GroupsEnd(s, i) ==
    IF i <= Len(s) /\ s[i] = "," /\ DigitsAt(s, i + 1, 3) = 3
    THEN GroupsEnd(s, i + 4) ELSE i

\* (?:\.[0-9]{1,2})? from position i, greedy: the position after it
DecimalsEnd(s, i) ==
    IF i <= Len(s) /\ s[i] = "." /\ DigitsAt(s, i + 1, 2) >= 1
    THEN i + 1 + DigitsAt(s, i + 1, 2) ELSE i

\* group(1) starting at the digit at position i: the position after it.  All
\* that follows the first digit is optional and greedy, and nothing follows
\* the group, so backtracking never shortens it.
NumberEnd(s, i) == DecimalsEnd(s, GroupsEnd(s, i + DigitsAt(s, i, 3)))

\* where group(1) starts if money_re matches at position i, else 0
MoneyMatchAt(s, i) ==
    LET d(j) == j <= Len(s) /\ IsDigit(s[j])
        dollar == i <= Len(s) /\ s[i] = "$"
        a == IF dollar THEN i + 1 ELSE i
        spA == a <= Len(s) /\ IsSpace(s[a])
    IN  IF spA /\ d(a + 1) THEN a + 1            \* \$? greedy, \s, digit
        ELSE IF d(a) THEN a                      \* \$? greedy, \s? empty, digit
        ELSE 0                                   \* giving "$" back does not help

\* re.search(money_re, s): group(1) of the leftmost match, or None
money_search(s) ==
    LET hits == {i \in 1..Len(s) : MoneyMatchAt(s, i) # 0}
    IN  IF hits = {} THEN None
        ELSE LET g == MoneyMatchAt(s, SetMin(hits))
             IN  SubSeq(s, g, NumberEnd(s, g) - 1)

-----------------------------------------------------------------------------
(* The label regex  r".{0,40}" + re.escape(pat) + r".{0,40}"  with IGNORECASE *)

Window == 40
After == 80

\* "." without re.DOTALL: any character but a newline
DotAll(c) == TRUE
Dot(c) == c # NL

\* .{0,n} from position i, greedy: how many characters it takes
RECURSIVE DotRun(_, _, _)
DotRun(s, i, n) ==
    IF n = 0 \/ i > Len(s) \/ ~Dot(s[i]) THEN 0 ELSE 1 + DotRun(s, i + 1, n - 1)

\* re.escape(pat) under IGNORECASE matches at position p
PatAt(s, phrase, p) ==
    /\ p >= 1
    /\ p + Len(phrase) - 1 <= Len(s)
    /\ \A j \in 1..Len(phrase) : FoldChar(s[p + j - 1]) = FoldChar(phrase[j])

Occurrences(s, phrase) == {p \in 1..Len(s) : PatAt(s, phrase, p)}

\* the lengths k the leading .{0,40} can have in a match starting at s:
\* k characters that "." accepts, then the phrase
PrefixLens(s, occ, start) ==
    {p - start : p \in {q \in occ : /\ q >= start
                                   /\ q - start <= Window
                                   /\ DotRun(s, start, q - start) = q - start}}

NoMatch == [start |-> 0, label |-> 0, last |-> 0]

\* The first match at or after position `from`: the leftmost start that has
\* a match at all; there the leading .{0,40} is greedy and backtracks from
\* the longest prefix, so the phrase is taken at its last position within
\* reach; the trailing .{0,40} is greedy.
next_match(s, phrase, from) ==
    LET occ == Occurrences(s, phrase)
        starts == {i \in from..Len(s) : PrefixLens(s, occ, i) # {}}
    IN  IF starts = {} THEN NoMatch
        ELSE LET start == SetMin(starts)
                 label == start + SetMax(PrefixLens(s, occ, start))
                 e == label + Len(phrase)
             IN  [start |-> start, label |-> label,
                  last |-> e - 1 + DotRun(s, e, Window)]

\* finditer resumes at m.end()
Resume(mt) == mt.last + 1

-----------------------------------------------------------------------------
(* rapidfuzz.fuzz.partial_ratio *)

\* One row of the longest-common-subsequence table.  The tests `v >= 0` and
\* `Len(row) >= 0` are always true: they make TLC compute each cell before
\* it goes on, instead of stacking up unevaluated cells.
RECURSIVE LcsRow(_, _, _, _, _)
LcsRow(c, b, prev, j, acc) ==
    IF j > Len(b) THEN acc
    ELSE LET diag == IF j = 1 THEN 0 ELSE prev[j - 1]
             left == IF j = 1 THEN 0 ELSE acc[j - 1]
             v == IF c = b[j] THEN diag + 1 ELSE Max(prev[j], left)
         IN  IF v >= 0 THEN LcsRow(c, b, prev, j + 1, Append(acc, v)) ELSE acc

RECURSIVE LcsFrom(_, _, _, _)
LcsFrom(a, b, i, prev) ==
    IF i > Len(a) THEN (IF Len(b) = 0 THEN 0 ELSE prev[Len(b)])
    ELSE LET row == LcsRow(a[i], b, prev, 1, << >>)
         IN  IF Len(row) >= 0 THEN LcsFrom(a, b, i + 1, row) ELSE 0

LCS(a, b) == LcsFrom(a, b, 1, [j \in 1..Len(b) |-> 0])

\* fuzz.ratio: 100 * (1 - indel / (len1 + len2)), indel = len1 + len2 - 2 LCS.
\* Scores are kept in thousandths, rounded down: 100.0 is 100000.  Two scores
\* of strings this short are equal or differ by more than a thousandth, so the
\* order and the equality of the floats are kept.
ratio(a, b) ==
    IF Len(a) + Len(b) = 0 THEN 100000
    ELSE (200000 * LCS(a, b)) \div (Len(a) + Len(b))

\* partial_ratio for len(s1) <= len(s2) <= 64 + ...: the best ratio of s1
\* against the windows of s2: its prefixes shorter than s1, its substrings as
\* long as s1, its suffixes shorter than s1.  A window is scored only if its
\* last (for a suffix: first) character occurs in s1; the score starts at 0
\* and the search stops at the first 100.
partial_ratio_short(s1, s2) ==
    LET n1 == Len(s1)
        n2 == Len(s2)
        chars == {s1[i] : i \in 1..n1}
        wins == {<<1, i>> : i \in {j \in 1..(n1 - 1) : s2[j] \in chars}}
                \cup {<<i, i + n1 - 1>> :
                        i \in {j \in 1..(n2 - n1) : s2[j + n1 - 1] \in chars}}
                \cup {<<i, n2>> :
                        i \in {j \in (n2 - n1 + 1)..n2 : j >= 1 /\ s2[j] \in chars}}
    IN  IF \E w \in wins : SubSeq(s2, w[1], w[2]) = s1 THEN 100000
        ELSE IF wins = {} THEN 0
        ELSE SetMax({ratio(s1, SubSeq(s2, w[1], w[2])) : w \in wins})

partial_ratio(a, b) ==
    IF Len(a) = 0 \/ Len(b) = 0 THEN (IF Len(a) = Len(b) THEN 100000 ELSE 0)
    ELSE IF Len(a) < Len(b) THEN partial_ratio_short(a, b)
    ELSE IF Len(a) > Len(b) THEN partial_ratio_short(b, a)
    ELSE Max(partial_ratio_short(a, b), partial_ratio_short(b, a))

-----------------------------------------------------------------------------
(* find_best_pattern *)

NoBest == [match |-> None, score |-> 0, value |-> None]

\* what one regex match m of phrase `pat` yields (the body of the inner loop)
Candidate(s, p, mt) ==
    LET substr == SubSeq(s, mt.start, mt.last)
        mval == money_search(substr)
        after == SubSeq(s, mt.last + 1, Min(mt.last + After, Len(s)))
        m2 == money_search(after)
        score == partial_ratio(lower(p), lower(substr))
    IN  IF mval # None
        THEN [via |-> "window", match |-> substr, score |-> score, value |-> mval]
        ELSE IF m2 # None
        THEN [via |-> "after", match |-> substr, score |-> score, value |-> m2]
        ELSE [via |-> "none", match |-> substr, score |-> 0, value |-> None]

\* if score > best["score"]
ReplacesOnTie(score, b) == score >= b.score
Replaces(score, b) == score > b.score

\* best.update(...) under that test
Update(b, c) ==
    IF c.via # "none" /\ Replaces(c.score, b)
    THEN [match |-> c.match, score |-> c.score, value |-> c.value]
    ELSE b

\* for pat in label_patterns: is there another phrase to scan
OnlyFirstPhrase(i, label_patterns) == i <= 1
MorePhrases(i, label_patterns) == i <= Len(label_patterns)

RECURSIVE scan_phrase(_, _, _, _)
scan_phrase(s, p, from, b) ==
    LET mt == next_match(s, p, from)
    IN  IF mt = NoMatch THEN b
        ELSE scan_phrase(s, p, Resume(mt), Update(b, Candidate(s, p, mt)))

RECURSIVE scan_phrases(_, _, _, _)
scan_phrases(s, label_patterns, i, b) ==
    IF ~MorePhrases(i, label_patterns) THEN b
    ELSE scan_phrases(s, label_patterns, i + 1, scan_phrase(s, label_patterns[i], 1, b))

\* the function as a whole
find_best_pattern(s, label_patterns) == scan_phrases(s, label_patterns, 1, NoBest)

-----------------------------------------------------------------------------
(* The value normalizer: res["value"].replace(",", "").strip(), float(v) *)

\* s.replace(ch, "")
RECURSIVE Remove(_, _)
Remove(s, ch) ==
    IF s = << >> THEN << >>
    ELSE IF Head(s) = ch THEN Remove(Tail(s), ch)
    ELSE << Head(s) >> \o Remove(Tail(s), ch)

\* s.strip()
strip(s) ==
    LET solid == {i \in 1..Len(s) : ~IsSpace(s[i])}
    IN  IF solid = {} THEN << >> ELSE SubSeq(s, SetMin(solid), SetMax(solid))

digitChars == <<"0","1","2","3","4","5","6","7","8","9">>
DigitVal(c) == (CHOOSE d \in 1..10 : digitChars[d] = c) - 1

\* the number a string of digits writes
RECURSIVE DigitsValue(_)
DigitsValue(s) ==
    IF s = << >> THEN 0
    ELSE 10 * DigitsValue(SubSeq(s, 1, Len(s) - 1)) + DigitVal(s[Len(s)])

\* m / 10^e with no trailing zero in the fraction, so that equal numbers are
\* equal values (1234.50 = 1234.5)
RECURSIVE Dec(_, _)
Dec(n, e) == IF e > 0 /\ n % 10 = 0 THEN Dec(n \div 10, e - 1) ELSE <<n, e>>

Float(n, e) == [kind |-> "float", num |-> Dec(n, e), str |-> << >>]
NaN == [kind |-> "nan",   num |-> <<0, 0>>,  str |-> << >>]
Inf == [kind |-> "inf",   num |-> <<0, 0>>,  str |-> << >>]
Str(s) == [kind |-> "str",   num |-> <<0, 0>>,  str |-> s]
Absent == [kind |-> "absent", num |-> <<0, 0>>, str |-> << >>]

\* float(v) for v over digits, ".", ",", "$", blanks and letters: surrounding
\* whitespace is dropped; digits with at most one "." and at least one digit
\* are a number; "nan", "inf", "infinity" in any case are floats too;
\* everything else raises ValueError (ok = FALSE).  Signs, exponents and "_"
\* are outside the alphabet the model draws tokens from.
float(v) ==
    LET w == strip(v)
        dots == {i \in 1..Len(w) : w[i] = "."}
        digs == {i \in 1..Len(w) : IsDigit(w[i])}
        word == lower(w)
    IN  IF word = <<"n","a","n">> THEN [ok |-> TRUE, val |-> NaN]
        ELSE IF word \in {<<"i","n","f">>, <<"i","n","f","i","n","i","t","y">>}
        THEN [ok |-> TRUE, val |-> Inf]
        ELSE IF /\ digs # {}
                /\ Cardinality(dots) <= 1
                /\ digs \cup dots = 1..Len(w)
        THEN LET d == IF dots = {} THEN Len(w) + 1 ELSE SetMin(dots)
                 whole == SubSeq(w, 1, d - 1)
                 frac == SubSeq(w, d + 1, Len(w))
             IN  [ok |-> TRUE,
                  val |-> Float(DigitsValue(whole \o frac), Len(frac))]
        ELSE [ok |-> FALSE, val |-> Absent]

\* v = res["value"].replace(",", "").strip()
cleanup(value) == strip(Remove(value, ","))

\* try: extracted[key] = float(v); except: extracted[key] = v
KeepRaw(value) ==
    IF float(cleanup(value)).ok THEN float(cleanup(value)).val ELSE Str(value)
normalize(value) ==
    IF float(cleanup(value)).ok THEN float(cleanup(value)).val ELSE Str(cleanup(value))

-----------------------------------------------------------------------------
(* Texts the extraction is run on *)

MaxSegs == 3
ShortGap == 45
LongGap == 90

Filler(n) == [i \in 1..n |-> "_"]

\* what OCR makes of a label: its first "s" read as a long s, or else its
\* first "i" as a dotless i
OcrVariant(phrase) ==
    LET ss == {i \in 1..Len(phrase) : phrase[i] = "s"}
        ii == {i \in 1..Len(phrase) : phrase[i] = "i"}
    IN  IF ss # {} THEN [phrase EXCEPT ![SetMin(ss)] = LongS]
        ELSE IF ii # {} THEN [phrase EXCEPT ![SetMin(ii)] = DotlessI]
        ELSE phrase

Amount1 == <<"2",",","5","0","0",".","0","0">>
Amount2 == <<"7","5",".","5">>
Amount3 == <<"1","5","0",".","2","5">>
Amount4 == <<"1",",","8","0","0",".","0","0">>

\* The pieces a text is put together from, for field k: its first label bare,
\* the same with an amount next to it, its last label in capitals with an
\* amount, its first label as OCR reads it with an amount, an amount alone,
\* a line break, and runs of other characters longer than one and than two
\* context windows.
Segments(k) ==
    LET first == patterns[k][1]
        last == patterns[k][Len(patterns[k])]
    IN  << first,
           first \o <<":", " ", "$">> \o Amount1,
           upper(last) \o <<" ">> \o Amount2,
           OcrVariant(first) \o <<" ">> \o Amount3,
           <<" ", "$">> \o Amount4,
           << NL >>,
           Filler(ShortGap),
           Filler(LongGap) >>

RECURSIVE Flatten(_)
Flatten(ss) == IF ss = << >> THEN << >> ELSE Head(ss) \o Flatten(Tail(ss))

Texts(k) ==
    UNION { { Flatten([i \in 1..n |-> Segments(k)[f[i]]]) :
                f \in [1..n -> 1..Len(Segments(k))] } : n \in 0..MaxSegs }

\* "Gross Pay: $2,500.00 ... Net Pay $1,800.00"
Scenario1 ==
    <<"G","r","o","s","s"," ","P","a","y",":"," ","$","2",",","5","0","0",".","0","0",
      " ",".",".","."," ",
      "N","e","t"," ","P","a","y"," ","$","1",",","8","0","0",".","0","0">>

\* the fields whose labels the generated texts carry
GenKeys == {"medicare"}

Inputs ==
    {<<k, t>> : k \in {"gross", "net"}, t \in {Scenario1}}
    \cup UNION { {<<k, t>> : t \in Texts(k)} : k \in GenKeys }

-----------------------------------------------------------------------------
(* The extraction run: find_best_pattern step by step, then lines 95-101 *)

label_patterns == patterns[key]
pat == label_patterns[pi]

ExtractInit ==
    /\ \E in \in Inputs : key = in[1] /\ text = in[2]
    /\ pc = "scan"
    /\ pi = 1
    /\ pos = 1
    /\ m = NoMatch
    /\ best = NoBest
    /\ scanned = << >>
    /\ extracted = Absent

ExtractIdle ==
    /\ key = "gross" /\ text = << >>
    /\ pc = "idle"
    /\ pi = 1
    /\ pos = 1
    /\ m = NoMatch
    /\ best = NoBest
    /\ scanned = << >>
    /\ extracted = Absent

\* finditer yields its next match m
Find ==
    /\ pc = "scan"
    /\ MorePhrases(pi, label_patterns)
    /\ next_match(text, pat, pos) # NoMatch
    /\ m' = next_match(text, pat, pos)
    /\ pc' = "body"
    /\ UNCHANGED << key, text, pi, pos, best, scanned, extracted >>
    /\ UNCHANGED << acqVars, normVars, sumVars >>

\* the loop body on m, when it comes out as `via`
Body(via) ==
    LET c == Candidate(text, pat, m)
    IN  /\ c.via = via
        /\ best' = Update(best, c)
        /\ scanned' = Append(scanned, [phrase |-> pi, from |-> pos, m |-> m, c |-> c])
        /\ pos' = Resume(m)
        /\ pc' = "scan"
        /\ UNCHANGED << key, text, pi, m, extracted >>
        /\ UNCHANGED << acqVars, normVars, sumVars >>

\* mval found in the context window
ScanWindow == pc = "body" /\ Body("window")

\* no mval; m2 found in the text after the match
ScanAfter == pc = "body" /\ Body("after")

\* neither: the occurrence yields no candidate
ScanMiss == pc = "body" /\ Body("none")

\* finditer is exhausted: on to the next label phrase
NextPhrase ==
    /\ pc = "scan"
    /\ MorePhrases(pi, label_patterns)
    /\ next_match(text, pat, pos) = NoMatch
    /\ pi' = pi + 1
    /\ pos' = 1
    /\ UNCHANGED << pc, key, text, m, best, scanned, extracted >>
    /\ UNCHANGED << acqVars, normVars, sumVars >>

\* return best
Return ==
    /\ pc = "scan"
    /\ ~MorePhrases(pi, label_patterns)
    /\ pc' = "returned"
    /\ UNCHANGED << key, text, pi, pos, m, best, scanned, extracted >>
    /\ UNCHANGED << acqVars, normVars, sumVars >>

\* if res["value"]: cleanup numeric
Store ==
    /\ pc = "returned"
    /\ pc' = "done"
    /\ extracted' = IF best.value # None THEN normalize(best.value) ELSE Absent
    /\ UNCHANGED << key, text, pi, pos, m, best, scanned >>
    /\ UNCHANGED << acqVars, normVars, sumVars >>

Next == Find \/ ScanWindow \/ ScanAfter \/ ScanMiss \/ NextPhrase \/ Return \/ Store

-----------------------------------------------------------------------------
(* extract_text_from_pdf_bytes, and the script around it *)

MaxPages == 2
MinChars == 50

Run(c, n) == [i \in 1..n |-> c]

\* what p.extract_text() can give for a page: nothing (None or ""), blanks
\* only, or a line of text; lines of 24, 25, 49 and 50 characters put
\* one-page and two-page documents on either side of the 50-character gate
PageTexts ==
    {<< >>, Run(" ", 2), Run("x", 24), Run("x", 25), Run("x", 49), Run("x", 50)}

\* what pytesseract.image_to_string can give for an image; 49 characters
\* make an OCR text exactly as long as a primary text of one 49-character page
OcrTexts == {Run("o", 10), Run("o", 49), Run("o", 50)}

AcqInit ==
    /\ apc = "open"
    /\ npages \in 0..MaxPages
    /\ page = 1
    /\ atext = << >>
    /\ imgs = 0
    /\ img = 1
    /\ ocr_text = << >>
    /\ warnings = 0
    /\ thrown = [where |-> "nowhere", text |-> << >>]
    /\ gate = [passed |-> FALSE, text |-> << >>, fallback |-> FALSE]
    /\ raw_text = << >>

AcqIdle ==
    /\ apc = "idle"
    /\ npages = 0
    /\ page = 1
    /\ atext = << >>
    /\ imgs = 0
    /\ img = 1
    /\ ocr_text = << >>
    /\ warnings = 0
    /\ thrown = [where |-> "nowhere", text |-> << >>]
    /\ gate = [passed |-> FALSE, text |-> << >>, fallback |-> FALSE]
    /\ raw_text = << >>

\* except Exception as e: st.warning(...) -- what the handler leaves in `text`
ClearText(t) == << >>
AfterCatch(t) == t

\* the handler of the try block, for an exception raised at `where`
Catch(where) ==
    /\ thrown' = [where |-> where, text |-> atext]
    /\ atext' = AfterCatch(atext)
    /\ warnings' = warnings + 1
    /\ apc' = "gate"

\* pdfplumber.open(...) succeeds
Open ==
    /\ apc = "open"
    /\ apc' = "pages"
    /\ UNCHANGED << npages, page, atext, imgs, img, ocr_text, warnings, thrown,
                    gate, raw_text >>
    /\ UNCHANGED << extractVars, normVars, sumVars >>

\* pdfplumber.open(...) raises
OpenThrows ==
    /\ apc = "open"
    /\ Catch("open")
    /\ UNCHANGED << npages, page, imgs, img, ocr_text, gate, raw_text >>
    /\ UNCHANGED << extractVars, normVars, sumVars >>

\* one iteration of `for p in pdf.pages` in which extract_text() returns
ExtractPage ==
    /\ apc = "pages"
    /\ page <= npages
    /\ \E page_text \in PageTexts :
          atext' = IF page_text # << >> THEN atext \o << NL >> \o page_text ELSE atext
    /\ page' = page + 1
    /\ UNCHANGED << apc, npages, imgs, img, ocr_text, warnings, thrown, gate, raw_text >>
    /\ UNCHANGED << extractVars, normVars, sumVars >>

\* one iteration in which extract_text() raises
PageThrows ==
    /\ apc = "pages"
    /\ page <= npages
    /\ Catch("page")
    /\ UNCHANGED << npages, page, imgs, img, ocr_text, gate, raw_text >>
    /\ UNCHANGED << extractVars, normVars, sumVars >>

\* the loop and the with block end
PagesDone ==
    /\ apc = "pages"
    /\ page > npages
    /\ apc' = "gate"
    /\ UNCHANGED << npages, page, atext, imgs, img, ocr_text, warnings, thrown,
                    gate, raw_text >>
    /\ UNCHANGED << extractVars, normVars, sumVars >>

\* if len(text.strip()) < 50
AtMost(t) == Len(strip(t)) <= MinChars
TooLittle(t) == Len(strip(t)) < MinChars

\* the gate trips: st.info(...), on to convert_from_bytes
GateFallback ==
    /\ apc = "gate"
    /\ TooLittle(atext)
    /\ gate' = [passed |-> TRUE, text |-> atext, fallback |-> TRUE]
    /\ apc' = "raster"
    /\ UNCHANGED << npages, page, atext, imgs, img, ocr_text, warnings, thrown, raw_text >>
    /\ UNCHANGED << extractVars, normVars, sumVars >>

\* the gate does not trip: straight to `return text`
GateSkip ==
    /\ apc = "gate"
    /\ ~TooLittle(atext)
    /\ gate' = [passed |-> TRUE, text |-> atext, fallback |-> FALSE]
    /\ apc' = "return"
    /\ UNCHANGED << npages, page, atext, imgs, img, ocr_text, warnings, thrown, raw_text >>
    /\ UNCHANGED << extractVars, normVars, sumVars >>

\* imgs = convert_from_bytes(pdf_bytes, dpi=300) returns; ocr_text = ""
Rasterize ==
    /\ apc = "raster"
    /\ imgs' \in 0..MaxPages
    /\ img' = 1
    /\ ocr_text' = << >>
    /\ apc' = "ocr"
    /\ UNCHANGED << npages, page, atext, warnings, thrown, gate, raw_text >>
    /\ UNCHANGED << extractVars, normVars, sumVars >>

\* convert_from_bytes raises (no poppler, a file it cannot read): nothing in
\* extract_text_from_pdf_bytes or around its call catches it
RasterizeThrows ==
    /\ apc = "raster"
    /\ apc' = "aborted"
    /\ UNCHANGED << npages, page, atext, imgs, img, ocr_text, warnings, thrown,
                    gate, raw_text >>
    /\ UNCHANGED << extractVars, normVars, sumVars >>

\* one iteration of `for im in imgs` in which image_to_string returns
Recognize ==
    /\ apc = "ocr"
    /\ img <= imgs
    /\ \E t \in OcrTexts : ocr_text' = ocr_text \o << NL >> \o t
    /\ img' = img + 1
    /\ UNCHANGED << apc, npages, page, atext, imgs, warnings, thrown, gate, raw_text >>
    /\ UNCHANGED << extractVars, normVars, sumVars >>

\* image_to_string raises (no Tesseract): not caught either
RecognizeThrows ==
    /\ apc = "ocr"
    /\ img <= imgs
    /\ apc' = "aborted"
    /\ UNCHANGED << npages, page, atext, imgs, img, ocr_text, warnings, thrown,
                    gate, raw_text >>
    /\ UNCHANGED << extractVars, normVars, sumVars >>

\* if len(ocr_text) > len(text): text = ocr_text
Longer(o, t) == IF Len(o) > Len(t) THEN o ELSE t

Compare ==
    /\ apc = "ocr"
    /\ img > imgs
    /\ atext' = Longer(ocr_text, atext)
    /\ apc' = "return"
    /\ UNCHANGED << npages, page, imgs, img, ocr_text, warnings, thrown, gate, raw_text >>
    /\ UNCHANGED << extractVars, normVars, sumVars >>

\* return text; raw_text = extract_text_from_pdf_bytes(bytes_data)
ReturnText ==
    /\ apc = "return"
    /\ raw_text' = atext
    /\ apc' = "returned"
    /\ UNCHANGED << npages, page, atext, imgs, img, ocr_text, warnings, thrown, gate >>
    /\ UNCHANGED << extractVars, normVars, sumVars >>

\* the rest of the script, lines 47-186, down to the summary and the chart
ShowSummary ==
    /\ apc = "returned"
    /\ apc' = "summary"
    /\ UNCHANGED << npages, page, atext, imgs, img, ocr_text, warnings, thrown,
                    gate, raw_text >>
    /\ UNCHANGED << extractVars, normVars, sumVars >>

AcqNext ==
    \/ Open \/ OpenThrows \/ ExtractPage \/ PageThrows \/ PagesDone
    \/ GateFallback \/ GateSkip \/ Rasterize \/ RasterizeThrows
    \/ Recognize \/ RecognizeThrows \/ Compare \/ ReturnText \/ ShowSummary

-----------------------------------------------------------------------------
(* The normalizer run on any token *)

MaxTokenLen == 3

TokenChars == {"1", "5", ",", ".", "$", " ", "N", "A", "/"}

Token1 == <<"1",",","2","3","4",".","5","6">>
Token2 == <<"1","2","3","4",".","5">>
Token3 == <<"$","2","5","0">>
Token4 == <<"2","5","0">>
TokenNA == <<"N","/","A">>

Tokens ==
    {Token1, Token2, Token3, Token4, TokenNA}
    \cup UNION {[1..n -> TokenChars] : n \in 1..MaxTokenLen}

NormInit ==
    /\ npc = "start"
    /\ raw \in Tokens
    /\ nvalue = Absent

NormIdle ==
    /\ npc = "idle"
    /\ raw = << >>
    /\ nvalue = Absent

\* try: extracted[key] = float(v)
Parse ==
    /\ npc = "start"
    /\ float(cleanup(raw)).ok
    /\ nvalue' = normalize(raw)
    /\ npc' = "done"
    /\ UNCHANGED raw
    /\ UNCHANGED << extractVars, acqVars, sumVars >>

\* except: extracted[key] = v
ParseFails ==
    /\ npc = "start"
    /\ ~float(cleanup(raw)).ok
    /\ nvalue' = normalize(raw)
    /\ npc' = "done"
    /\ UNCHANGED raw
    /\ UNCHANGED << extractVars, acqVars, sumVars >>

NormNext == Parse \/ ParseFails

-----------------------------------------------------------------------------
(* The editable fields and the summary.  Amounts are in cents. *)

FieldNames == {"gross", "fed", "state", "ss", "medicare", "pre_tax_contrib",
               "post_tax_contrib"}

\* the fields seeded from `extracted`; the two contributions start at 0.0
Seeded == {"gross", "fed", "state", "ss", "medicare"}

\* gross=3000, federal=300, state=100, social security=186, medicare=43.5,
\* pre-tax=200, post-tax=0
Scenario4 ==
    [gross |-> 300000, fed |-> 30000, state |-> 10000, ss |-> 18600,
     medicare |-> 4350, pre_tax_contrib |-> 20000, post_tax_contrib |-> 0]

\* another set of amounts a field can be seeded with or edited to
Other ==
    [gross |-> 250000, fed |-> 15025, state |-> 0, ss |-> 15500,
     medicare |-> 3625, pre_tax_contrib |-> 0, post_tax_contrib |-> 5000]

SumInit ==
    /\ spc = "start"
    /\ seeds \in [Seeded -> {0, 1}]
    /\ fields = [f \in FieldNames |-> 0]
    /\ total_taxes = 0
    /\ estimated_take_home = 0

SumIdle ==
    /\ spc = "idle"
    /\ seeds = [f \in Seeded |-> 0]
    /\ fields = [f \in FieldNames |-> 0]
    /\ total_taxes = 0
    /\ estimated_take_home = 0

\* float(extracted.get(name, 0.0)): a field is absent from `extracted`
\* (seeds[name] = 0) or holds the amount of Other
SeedValue(name) ==
    IF name \in Seeded /\ seeds[name] = 1 THEN Other[name] ELSE 0

\* total_taxes = fed + state + ss + medicare
TaxesFromSeeds(v) ==
    SeedValue("fed") + SeedValue("state") + SeedValue("ss") + SeedValue("medicare")
TotalTaxes(v) == v.fed + v.state + v.ss + v.medicare

\* estimated_take_home = gross - total_taxes - pre_tax_contrib - post_tax_contrib
TakeHome(v, taxes) == v.gross - taxes - v.pre_tax_contrib - v.post_tax_contrib

\* one run of the script from the number inputs down, on the values v
Rerun(v) ==
    /\ fields' = v
    /\ total_taxes' = TotalTaxes(v)
    /\ estimated_take_home' = TakeHome(v, TotalTaxes(v))
    /\ spc' = "shown"

\* the first run: every number input shows its seed
Render ==
    /\ spc = "start"
    /\ Rerun([f \in FieldNames |-> SeedValue(f)])
    /\ UNCHANGED seeds
    /\ UNCHANGED << extractVars, acqVars, normVars >>

\* the user sets one number input; Streamlit runs the script again
Edit ==
    /\ spc = "shown"
    /\ \E f \in FieldNames :
          \E v \in {0, Scenario4[f], Other[f]} :
              /\ fields[f] # v
              /\ Rerun([fields EXCEPT ![f] = v])
    /\ UNCHANGED seeds
    /\ UNCHANGED << extractVars, acqVars, normVars >>

SumNext == Render \/ Edit

-----------------------------------------------------------------------------
(* The specifications *)

Init == ExtractInit /\ AcqIdle /\ NormIdle /\ SumIdle
Spec == Init /\ [][Next]_vars

InitAcq == ExtractIdle /\ AcqInit /\ NormIdle /\ SumIdle
SpecAcq == InitAcq /\ [][AcqNext]_vars

InitNorm == ExtractIdle /\ AcqIdle /\ NormInit /\ SumIdle
SpecNorm == InitNorm /\ [][NormNext]_vars

InitSum == ExtractIdle /\ AcqIdle /\ NormIdle /\ SumInit
SpecSum == InitSum /\ [][SumNext]_vars

-----------------------------------------------------------------------------
(* Claims about find_best_pattern *)

\* the candidates scored so far, in scan order (phrase order, then text order)
Seen == SelectSeq(scanned, LAMBDA r : r.c.via # "none")

\* the label phrase stands at position i letter for letter
VerbatimAt(s, phrase, i) ==
    i + Len(phrase) - 1 <= Len(s) /\ SubSeq(s, i, i + Len(phrase) - 1) = phrase

\* the currency token that directly follows a label ending before position e
\* (only ":", a blank and "$" may stand between), or None
AdjacentToken(s, e) ==
    LET gaps == {g \in 0..3 : /\ e + g <= Len(s)
                              /\ IsDigit(s[e + g])
                              /\ \A j \in e..(e + g - 1) : s[j] \in {":", " ", "$"}}
    IN  IF gaps = {} THEN None
        ELSE LET g == e + SetMin(gaps) IN SubSeq(s, g, NumberEnd(s, g) - 1)

VerbatimAdjacentTokens ==
    { AdjacentToken(text, q[1] + Len(label_patterns[q[2]])) :
        q \in {r \in (1..Len(text)) \X DOMAIN label_patterns :
                 VerbatimAt(text, label_patterns[r[2]], r[1])} } \ {None}

\* C1: when a label phrase of the field stands verbatim in the text with a
\* well-formed currency token directly after it, the value returned is such
\* an adjacent token, whatever numbers stand elsewhere; and on
\* "Gross Pay: $2,500.00 ... Net Pay $1,800.00" gross is 2500.0 and net 1800.0.
C1_AdjacentTokenReturned ==
    pc = "done" =>
        /\ VerbatimAdjacentTokens # {} => best.value \in VerbatimAdjacentTokens
        /\ (text = Scenario1 /\ key = "gross") => extracted = Float(2500, 0)
        /\ (text = Scenario1 /\ key = "net") => extracted = Float(1800, 0)

\* C2: at any time of the scan the running best is the first candidate, in
\* scan order, among those with the highest score seen so far (and the
\* initial empty record while no candidate has been scored): it is replaced
\* only by a strictly higher score, and ties keep the first seen.
C2_RunningBestIsFirstHighest ==
    IF Seen = << >> THEN best = NoBest
    ELSE LET top == SetMax({Seen[i].c.score : i \in DOMAIN Seen})
             first == SetMin({i \in DOMAIN Seen : Seen[i].c.score = top})
         IN  best = [match |-> Seen[first].c.match, score |-> top,
                     value |-> Seen[first].c.value]

\* a scan in which a later candidate with a strictly higher score has
\* replaced an earlier one carrying another value
C2_Witness ==
    /\ pc = "done"
    /\ \E i, j \in DOMAIN Seen :
          /\ i < j
          /\ Seen[i].c.score < Seen[j].c.score
          /\ Seen[i].c.value # Seen[j].c.value
          /\ best.value = Seen[j].c.value

\* the orders the label phrases of a field can be listed in
Orders(phrases) ==
    LET n == Len(phrases)
    IN  {[i \in 1..n |-> phrases[f[i]]] :
            f \in {g \in [1..n -> 1..n] : \A a, b \in 1..n : g[a] = g[b] => a = b}}

\* C3 as stated: the returned value is the same for every order of the
\* field's label phrases.
C3_ValueIndependentOfOrder ==
    pc = "returned" =>
        \A order \in Orders(label_patterns) :
            find_best_pattern(text, order).value = best.value

\* C3 as amended: whether a value is returned, and the score of the returned
\* candidate, are the same for every order of the field's label phrases (the
\* value itself is that of the first highest-scoring candidate in the order
\* given, and can differ).
C3_ScoreIndependentOfOrder ==
    pc = "returned" =>
        \A order \in Orders(label_patterns) :
            LET r == find_best_pattern(text, order)
            IN  /\ r.score = best.score
                /\ (r.value = None) <=> (best.value = None)

\* a text on which another order of the phrases returns another value, with
\* the same score
C3_Witness ==
    /\ pc = "returned"
    /\ best.value # None
    /\ \E order \in Orders(label_patterns) :
          LET r == find_best_pattern(text, order)
          IN  r.value # None /\ r.value # best.value /\ r.score = best.score

\* C4: for a label occurrence whose context window (40 characters either
\* side of the phrase) holds no currency token, the 80 characters right
\* after the END OF THE PHRASE are searched: a token there makes the
\* occurrence a candidate with that token, and no token there makes it none.
C4_SecondaryWindowAfterPhrase ==
    \A i \in DOMAIN scanned :
        LET r == scanned[i]
            phrase == label_patterns[r.phrase]
            pe == r.m.label + Len(phrase) - 1
            window == SubSeq(text, Max(1, r.m.label - Window), Min(Len(text), pe + Window))
            secondary == SubSeq(text, pe + 1, Min(Len(text), pe + After))
        IN  money_search(window) = None =>
                IF money_search(secondary) # None
                THEN r.c.via = "after" /\ r.c.value = money_search(secondary)
                ELSE r.c.via = "none"

\* the occurrences of a phrase under plain case-insensitive comparison
CaselessOccurrences(s, phrase) ==
    {i \in 1..(Len(s) - Len(phrase) + 1) :
        lower(SubSeq(s, i, i + Len(phrase) - 1)) = lower(phrase)}

\* C10 as stated: every case-insensitive occurrence of every label phrase is
\* scanned with a context window of its own, from 40 characters before the
\* phrase to 40 after it, shortened only by the ends of the text.
C10_EveryOccurrenceOwnWindow ==
    pc = "returned" =>
        \A j \in DOMAIN label_patterns :
            \A i \in CaselessOccurrences(text, label_patterns[j]) :
                \E k \in DOMAIN scanned :
                    /\ scanned[k].phrase = j
                    /\ scanned[k].m.label = i
                    /\ scanned[k].m.start = Max(1, i - Window)
                    /\ scanned[k].m.last =
                          Min(Len(text), i + Len(label_patterns[j]) - 1 + Window)

\* C10 as amended: for each label phrase the text is scanned left to right in
\* windows that do not overlap.  A window runs from up to 40 characters
\* before an occurrence of the phrase (case-insensitive) to up to 40 after
\* its end, inside one line; it is shortened by the ends of the text, by
\* line breaks and by the end of the previous window of the same phrase; of
\* several occurrences within reach of the window's start the last one is
\* the anchor; and every occurrence lies at least partly in some window, but
\* need not have a window or a candidate of its own.
C10_WindowsOfAPhrase ==
    /\ \A k \in DOMAIN scanned :
          LET r == scanned[k]
              phrase == label_patterns[r.phrase]
              pe == r.m.label + Len(phrase) - 1
              earlier == {h \in 1..(k - 1) : scanned[h].phrase = r.phrase}
          IN  /\ PatAt(text, phrase, r.m.label)
              /\ r.m.start <= r.m.label /\ r.m.label - r.m.start <= Window
              /\ pe <= r.m.last /\ r.m.last - pe <= Window
              /\ r.m.last <= Len(text) /\ r.m.start >= 1
              /\ \A i \in r.m.start..r.m.last : text[i] # NL
              /\ r.from = IF earlier = {} THEN 1
                          ELSE scanned[SetMax(earlier)].m.last + 1
              /\ r.m.start >= r.from
              /\ r.m.label - r.m.start < Window =>
                    r.m.start = r.from \/ text[r.m.start - 1] = NL
              /\ r.m.last - pe < Window =>
                    r.m.last = Len(text) \/ text[r.m.last + 1] = NL
              /\ \A q \in Occurrences(text, phrase) :
                    q > r.m.label =>
                        \/ q - r.m.start > Window
                        \/ \E i \in r.m.start..q : text[i] = NL
    /\ pc = "returned" =>
          \A j \in DOMAIN label_patterns :
              \A q \in Occurrences(text, label_patterns[j]) :
                  \E k \in DOMAIN scanned :
                      /\ scanned[k].phrase = j
                      /\ scanned[k].m.start <= q + Len(label_patterns[j]) - 1
                      /\ q <= scanned[k].m.last

\* a scan that has cut a window short at a line break and has passed over an
\* occurrence of the phrase without giving it a window of its own
C10_Witness ==
    /\ pc = "returned"
    /\ \E k \in DOMAIN scanned :
          LET r == scanned[k]
              pe == r.m.label + Len(label_patterns[r.phrase]) - 1
          IN  /\ r.m.last - pe < Window
              /\ r.m.last < Len(text)
              /\ text[r.m.last + 1] = NL
              /\ \E q \in CaselessOccurrences(text, label_patterns[r.phrase]) :
                    \A h \in DOMAIN scanned :
                        scanned[h].phrase = r.phrase => scanned[h].m.label # q

-----------------------------------------------------------------------------
(* Claims about extract_text_from_pdf_bytes *)

\* C5: the OCR fallback is entered exactly when the primary text, stripped,
\* is shorter than 50 characters; when it ran and the function returns, the
\* text returned is the OCR text if that is strictly longer than the primary
\* text and the primary text otherwise; when it did not run, the primary text
\* is returned as it is.
C5_FallbackExactlyWhenShort ==
    /\ gate.passed => (gate.fallback <=> Len(strip(gate.text)) < MinChars)
    /\ apc \in {"raster", "ocr", "aborted"} => gate.passed /\ gate.fallback
    /\ apc = "return" /\ ~gate.fallback => imgs = 0 /\ ocr_text = << >>
    /\ apc \in {"returned", "summary"} =>
          raw_text = IF ~gate.fallback THEN gate.text
                     ELSE IF Len(ocr_text) > Len(gate.text) THEN ocr_text
                     ELSE gate.text

\* the fallback ran, the OCR text is as long as the primary text and differs
\* from it, and the primary text was returned
C5_Witness ==
    /\ apc = "returned"
    /\ gate.fallback
    /\ Len(ocr_text) = Len(gate.text)
    /\ ocr_text # gate.text
    /\ raw_text = gate.text

\* C6 as stated: whenever the structural parse throws, on opening or on any
\* page, a warning is given, the text is the empty string when the quality
\* gate is evaluated, and the fallback is entered.
C6_EmptyTextAtGate ==
    thrown.where # "nowhere" /\ gate.passed =>
        /\ warnings = 1
        /\ gate.text = << >>
        /\ gate.fallback

\* C6 as amended: whenever the structural parse throws, one warning is given
\* and the quality gate is evaluated on the text of the pages extracted
\* before the failure (the empty string when opening failed); the fallback
\* is entered only if that text, stripped, is shorter than 50 characters.
C6_PartialTextAtGate ==
    thrown.where # "nowhere" =>
        /\ warnings = 1
        /\ apc \notin {"open", "pages"}
        /\ thrown.where = "open" => thrown.text = << >>
        /\ apc = "gate" => atext = thrown.text
        /\ gate.passed =>
              /\ gate.text = thrown.text
              /\ gate.fallback <=> Len(strip(thrown.text)) < MinChars

\* a page threw after 50 characters had been extracted; the gate saw them and
\* the run went on without the fallback
C6_Witness ==
    /\ thrown.where = "page"
    /\ warnings = 1
    /\ gate.passed
    /\ gate.text # << >>
    /\ ~gate.fallback
    /\ apc = "returned"

\* C7: no failure in any stage aborts the run: it always goes on to the
\* summary.
C7_NeverAborts == apc # "aborted"

-----------------------------------------------------------------------------
(* Claims about the normalizer *)

\* the string has no thousands separator and no whitespace at either end
Clean(t) ==
    /\ \A i \in 1..Len(t) : t[i] # ","
    /\ t # << >> => ~IsSpace(t[1]) /\ ~IsSpace(t[Len(t)])

-----------------------------------------------------------------------------
(* Claims about the summary *)

\* C9: total taxes is federal + state + social security + medicare and the
\* estimated take-home is gross - total taxes - pre-tax contributions -
\* post-tax deductions, of the values the fields hold now (edited or not);
\* on scenario 4 they are 629.5 and 2170.5.
C9_Summary ==
    spc = "shown" =>
        /\ total_taxes = fields.fed + fields.state + fields.ss + fields.medicare
        /\ estimated_take_home =
              fields.gross - total_taxes - fields.pre_tax_contrib
                - fields.post_tax_contrib
        /\ fields = Scenario4 =>
              total_taxes = 62950 /\ estimated_take_home = 217050

\* every seeded field was extracted with another amount and then edited to
\* scenario 4, and the summary shows 629.5 and 2170.5
C9_Witness ==
    /\ spc = "shown"
    /\ \A f \in Seeded : seeds[f] = 1 /\ SeedValue(f) # fields[f]
    /\ fields = Scenario4
    /\ total_taxes = 62950
    /\ estimated_take_home = 217050

=============================================================================
